---- MODULE Spec2Model ----
(***************************************************************************)
(* State-machine model of the CircuitBreaker class of src/src/index.ts.    *)
(*                                                                         *)
(* JavaScript runs every handler to completion, so one action is one       *)
(* synchronous run of code: a call of fire() up to its await, the          *)
(* continuation of fire() after the wrapped request settles, a call of     *)
(* trip(), reset() or destroy(), or the run of a setTimeout callback.      *)
(* The environment is the clock (Date.now()), the timer facility           *)
(* (setTimeout/clearTimeout) and the wrapped request.  setTimeout only     *)
(* promises that a callback runs no earlier than its delay: it may run     *)
(* arbitrarily later, while Date.now() has moved on.                       *)
(*                                                                         *)
(* The observers onOpen/onClose/onHalfOpen are recorded at the place the   *)
(* code invokes them.  They return normally in every specification but     *)
(* ThrowSpec, which adds the runs of the handlers in which one throws.     *)
(***************************************************************************)
EXTENDS Integers, Sequences, FiniteSets, TLC

\* ---------------------------------------------------------------- bounds
MaxThreshold == 2   \* failureThreshold, successThreshold range over 1..MaxThreshold
MaxTimeout == 2     \* timeout ranges over 1..MaxTimeout (clock units)
MaxTime == 4        \* the clock stops advancing here
MaxCalls == 3       \* invocations of the wrapped request
MaxInFlight == 2    \* requests awaiting their outcome at once

\* the value of timeoutId while it is undefined (index.ts:99); handles are 1, 2, ...
NoTimer == 0

VARIABLES
    state,            \* index.ts:86
    failureCount,     \* index.ts:87
    successCount,     \* index.ts:88
    nextAttemptTime,  \* index.ts:89
    failureThreshold, \* index.ts:91
    successThreshold, \* index.ts:92
    timeout,          \* index.ts:93
    timeoutId,        \* index.ts:99
    now,              \* Date.now()
    timers,           \* pending setTimeout callbacks: [id, due]
    calls,            \* number of invocations of the wrapped request
    inflight,         \* number of invocations whose promise has not settled yet
    last,             \* the handler that ran last: the state it started in, its
                      \* outcome and the observers it invoked
    undisturbed,      \* OPEN was entered and no fire/trip/reset/destroy was called since
    onlyFailures,     \* since construction: only calls made one at a time that all failed
    failStreak,       \* number of failed requests since the last resolved one or reset()
    probing,          \* since HALF_OPEN was entered: only calls made one at a time
                      \* that all resolved
    trials            \* while probing: how many calls resolved since the entry

vars == <<state, failureCount, successCount, nextAttemptTime, failureThreshold,
          successThreshold, timeout, timeoutId, now, timers, calls,
          inflight, last, undisturbed, onlyFailures, failStreak, probing,
          trials>>

history == <<undisturbed, onlyFailures, failStreak, probing, trials>>

config == <<failureThreshold, successThreshold, timeout>>

CircuitState == {"CLOSED", "OPEN", "HALF_OPEN"}

\* the observers of index.ts:94-96
Observers == {"onOpen", "onClose", "onHalfOpen"}

\* What the wrapped request resolves with, and what it rejects with.  The class
\* never inspects either (index.ts:149-152 hand them on), so one value of each
\* kind stands for all; what fire() settles with ranges over these, None,
\* BreakerOpen and the exceptions of the observers.
Responses == {"response"}
Errors == {"error"}

\* the error fire() throws at index.ts:144
BreakerOpen == "Circuit breaker is OPEN"

\* undefined: no value returned, no exception thrown
None == "none"

\* ------------------------------------------------------ the breaker object
\* The fields a handler reads and writes, with the timer facility and the
\* observers invoked so far in the running handler.
Self ==
    [state |-> state, failureCount |-> failureCount, successCount |-> successCount,
     nextAttemptTime |-> nextAttemptTime, timeoutId |-> timeoutId,
     timers |-> timers, notified |-> <<>>,
     throwing |-> {}, thrown |-> None, settled |-> None, result |-> None]

\* b.throwing are the observers that throw when the handler invokes them;
\* b.thrown is the exception leaving the running method, named after the observer
\* that threw it.  An observer call this.onX?.() is recorded in b.notified.

\* clearTimeout(id)
clearTimeout(pending, id) == {t \in pending : t.id # id}

\* The handle setTimeout returns: one that no pending timer has.  (A handle that
\* was cleared or has fired is never used again by the class: HandleIsPending.)
newHandle(pending) ==
    CHOOSE id \in 1..(Cardinality(pending) + 1) : \A t \in pending : t.id # id

\* setTimeout(callback, delay)
setTimeout(pending, id, delay) == pending \cup {[id |-> id, due |-> now + delay]}

\* open() as it would be if an already open breaker were left alone
open_OnlyWhenNotOpen(b) ==
    IF b.state = "OPEN"
    THEN b
    ELSE IF "onOpen" \in b.throwing
    THEN [b EXCEPT !.state = "OPEN",
                   !.nextAttemptTime = now + timeout,
                   !.notified = Append(@, "onOpen"),
                   !.thrown = "onOpen"]
    ELSE LET kept == IF b.timeoutId # NoTimer
                     THEN clearTimeout(b.timers, b.timeoutId)
                     ELSE b.timers
             id == newHandle(kept)
         IN [b EXCEPT !.state = "OPEN",
                      !.nextAttemptTime = now + timeout,
                      !.notified = Append(@, "onOpen"),
                      !.timers = setTimeout(kept, id, timeout),
                      !.timeoutId = id]

\* open() as it would be if it scheduled no callback
open_NoCallback(b) ==
    [b EXCEPT !.state = "OPEN",
              !.nextAttemptTime = now + timeout,
              !.notified = Append(@, "onOpen"),
              !.thrown = IF "onOpen" \in b.throwing THEN "onOpen" ELSE @]

\* private open(): index.ts:238-248
open(b) ==
    IF "onOpen" \in b.throwing
    THEN [b EXCEPT !.state = "OPEN",
                   !.nextAttemptTime = now + timeout,
                   !.notified = Append(@, "onOpen"),
                   !.thrown = "onOpen"]
    ELSE LET kept == IF b.timeoutId # NoTimer
                     THEN clearTimeout(b.timers, b.timeoutId)
                     ELSE b.timers
             id == newHandle(kept)
         IN [b EXCEPT !.state = "OPEN",
                      !.nextAttemptTime = now + timeout,
                      !.notified = Append(@, "onOpen"),
                      !.timers = setTimeout(kept, id, timeout),
                      !.timeoutId = id]

\* private transitionToHalfOpen(): index.ts:250-258
transitionToHalfOpen(b) ==
    IF b.state = "OPEN"
    THEN IF "onHalfOpen" \in b.throwing
         THEN [b EXCEPT !.state = "HALF_OPEN",
                        !.successCount = 0,
                        !.notified = Append(@, "onHalfOpen"),
                        !.thrown = "onHalfOpen"]
         ELSE [b EXCEPT !.state = "HALF_OPEN",
                        !.successCount = 0,
                        !.notified = Append(@, "onHalfOpen"),
                        !.timeoutId = NoTimer]
    ELSE [b EXCEPT !.timeoutId = NoTimer]

\* reset() as it would be if it forgot successCount
resetBreaker_KeepsSuccessCount(b) ==
    [b EXCEPT !.failureCount = 0,
              !.state = "CLOSED",
              !.notified = Append(@, "onClose"),
              !.thrown = IF "onClose" \in b.throwing THEN "onClose" ELSE @]

\* reset() as it would be if it forgot failureCount
resetBreaker_KeepsFailureCount(b) ==
    [b EXCEPT !.successCount = 0,
              !.state = "CLOSED",
              !.notified = Append(@, "onClose"),
              !.thrown = IF "onClose" \in b.throwing THEN "onClose" ELSE @]

\* reset(): index.ts:213-218
resetBreaker(b) ==
    [b EXCEPT !.failureCount = 0,
              !.successCount = 0,
              !.state = "CLOSED",
              !.notified = Append(@, "onClose"),
              !.thrown = IF "onClose" \in b.throwing THEN "onClose" ELSE @]

\* success() as it would be with > for >=
success_OffByOne(b, response) ==
    IF b.state = "HALF_OPEN"
    THEN IF b.successCount + 1 > successThreshold
         THEN [resetBreaker([b EXCEPT !.successCount = @ + 1]) EXCEPT
                   !.result = IF "onClose" \in b.throwing THEN @ ELSE response]
         ELSE [b EXCEPT !.successCount = @ + 1, !.result = response]
    ELSE [b EXCEPT !.result = response]

\* private success(): index.ts:220-228
success(b, response) ==
    IF b.state = "HALF_OPEN"
    THEN IF b.successCount + 1 >= successThreshold
         THEN [resetBreaker([b EXCEPT !.successCount = @ + 1]) EXCEPT
                   !.result = IF "onClose" \in b.throwing THEN @ ELSE response]
         ELSE [b EXCEPT !.successCount = @ + 1, !.result = response]
    ELSE [b EXCEPT !.result = response]

\* fail() as it would be with > for >=
fail_OffByOne(b, error) ==
    IF b.failureCount + 1 > failureThreshold
    THEN [open([b EXCEPT !.failureCount = @ + 1]) EXCEPT
              !.thrown = IF "onOpen" \in b.throwing THEN @ ELSE error]
    ELSE [b EXCEPT !.failureCount = @ + 1, !.thrown = error]

\* fail() as it would be if it counted failures only while CLOSED
fail_OnlyWhileClosed(b, error) ==
    IF b.state # "CLOSED"
    THEN [b EXCEPT !.thrown = error]
    ELSE IF b.failureCount + 1 >= failureThreshold
    THEN [open([b EXCEPT !.failureCount = @ + 1]) EXCEPT
              !.thrown = IF "onOpen" \in b.throwing THEN @ ELSE error]
    ELSE [b EXCEPT !.failureCount = @ + 1, !.thrown = error]

\* private fail(): index.ts:230-236
fail(b, error) ==
    IF b.failureCount + 1 >= failureThreshold
    THEN [open([b EXCEPT !.failureCount = @ + 1]) EXCEPT
              !.thrown = IF "onOpen" \in b.throwing THEN @ ELSE error]
    ELSE [b EXCEPT !.failureCount = @ + 1, !.thrown = error]

\* the fail-fast test as it would be if HALF_OPEN let one trial through at a time
failsFast_SingleTrial ==
    \/ state = "OPEN" /\ ~(now > nextAttemptTime)
    \/ state = "HALF_OPEN" /\ inflight > 0

\* the fail-fast test as it would be with >= for >
failsFast_AtDeadline == state = "OPEN" /\ ~(now >= nextAttemptTime)

\* fire() rejects without calling the request: index.ts:139-145
failsFast == state = "OPEN" /\ ~(now > nextAttemptTime)

\* fire() as it would be if only a breaker with a cooldown callback could leave OPEN
admit_NeedsCallback(b) ==
    IF b.state = "OPEN" /\ b.timeoutId # NoTimer THEN transitionToHalfOpen(b) ELSE b

\* fire() as it would be if it let the call through without the transition
admit_NoTransition(b) == b

\* fire() up to the invocation of the request: index.ts:139-149
admit(b) == IF b.state = "OPEN" THEN transitionToHalfOpen(b) ELSE b

\* getState() as it would be if it made the lazy transition that fire() makes
getState_Lazy(b) ==
    LET c == IF b.state = "OPEN" /\ now > b.nextAttemptTime
             THEN transitionToHalfOpen(b)
             ELSE b
    IN [c EXCEPT !.result = c.state]

\* getState(): index.ts:160-162
getState(b) == [b EXCEPT !.result = b.state]

\* getStats(): index.ts:168-175
getStats(b) ==
    [b EXCEPT !.result = [state |-> b.state,
                          failureCount |-> b.failureCount,
                          successCount |-> b.successCount,
                          nextAttemptTime |-> b.nextAttemptTime]]

\* isOpen(): index.ts:181-183
isOpen(b) == [b EXCEPT !.result = (b.state = "OPEN")]

\* isClosed(): index.ts:189-191
isClosed(b) == [b EXCEPT !.result = (b.state = "CLOSED")]

\* isHalfOpen(): index.ts:197-199
isHalfOpen(b) == [b EXCEPT !.result = (b.state = "HALF_OPEN")]

\* destroy(): index.ts:264-269
destroyBreaker(b) ==
    IF b.timeoutId # NoTimer
    THEN [b EXCEPT !.timers = clearTimeout(@, b.timeoutId), !.timeoutId = NoTimer]
    ELSE b

\* The handler leaves the object as b.
Becomes(b) ==
    /\ state' = b.state
    /\ failureCount' = b.failureCount
    /\ successCount' = b.successCount
    /\ nextAttemptTime' = b.nextAttemptTime
    /\ timeoutId' = b.timeoutId
    /\ timers' = b.timers

\* What the handler was: its operation, the state it started in, how it ended,
\* the observers it invoked, what the awaited request had settled with and what
\* the handler returned or threw.
Ran(op, outcome, b) ==
    last' = [op |-> op, from |-> state, outcome |-> outcome, notified |-> b.notified,
             settled |-> b.settled,
             result |-> IF b.thrown # None THEN b.thrown ELSE b.result]

\* the object when `await this.request(...args)` has settled with v
Awaited(v) == [Self EXCEPT !.settled = v]

Invoked(b, observer) == \E i \in 1..Len(b.notified) : b.notified[i] = observer

\* the handler moved the breaker from OPEN to HALF_OPEN
EntersHalfOpen(b) == state = "OPEN" /\ b.state = "HALF_OPEN"

StartsProbing == probing' = TRUE /\ trials' = 0
NotProbing == probing' = FALSE /\ trials' = 0

\* open() can run within the bounds of the model
CanOpen == now + timeout <= MaxTime

\* ---------------------------------------------------------------- actions
\* new CircuitBreaker(request, options): index.ts:107-128
Init ==
    /\ state = "CLOSED"
    /\ failureCount = 0
    /\ successCount = 0
    /\ nextAttemptTime = 0
    /\ failureThreshold \in 1..MaxThreshold
    /\ successThreshold \in 1..MaxThreshold
    /\ timeout \in 1..MaxTimeout
    /\ timeoutId = NoTimer
    /\ now = 1
    /\ timers = {}
    /\ calls = 0
    /\ inflight = 0
    /\ last = [op |-> "new", from |-> "CLOSED", outcome |-> "returned", notified |-> <<>>,
               settled |-> None, result |-> None]
    /\ undisturbed = FALSE
    /\ onlyFailures = TRUE
    /\ failStreak = 0
    /\ probing = FALSE
    /\ trials = 0

\* fire() while OPEN before the deadline: throws 'Circuit breaker is OPEN'
FireRejected ==
    /\ failsFast
    /\ Ran("fire", "rejected", [Self EXCEPT !.thrown = BreakerOpen])
    /\ undisturbed' = FALSE
    /\ onlyFailures' = FALSE
    /\ NotProbing
    /\ UNCHANGED <<state, failureCount, successCount, nextAttemptTime, timeoutId,
                   timers, calls, inflight, now, config, failStreak>>

\* fire() that reaches `await this.request(...args)`
FireAdmitted ==
    /\ ~failsFast
    /\ calls < MaxCalls
    /\ inflight < MaxInFlight
    /\ LET b == admit(Self)
       IN /\ Becomes(b) /\ Ran("fire", "admitted", b)
          /\ IF inflight # 0 THEN NotProbing
             ELSE IF EntersHalfOpen(b) THEN StartsProbing
             ELSE IF state = "HALF_OPEN" THEN UNCHANGED <<probing, trials>>
             ELSE NotProbing
    /\ calls' = calls + 1
    /\ inflight' = inflight + 1
    /\ undisturbed' = FALSE
    /\ onlyFailures' = (onlyFailures /\ inflight = 0)
    /\ UNCHANGED <<now, config, failStreak>>

\* a pending request resolves: fire() continues at index.ts:150
RequestResolves ==
    /\ inflight > 0
    /\ \E response \in Responses :
           LET b == success(Awaited(response), response)
           IN Becomes(b) /\ Ran("success", "resolved", b)
    /\ inflight' = inflight - 1
    /\ onlyFailures' = FALSE
    /\ failStreak' = 0
    /\ IF probing /\ state = "HALF_OPEN"
       THEN probing' = TRUE /\ trials' = trials + 1
       ELSE NotProbing
    /\ UNCHANGED <<now, config, calls, undisturbed>>

\* a pending request rejects: fire() continues at index.ts:152
RequestRejects ==
    /\ inflight > 0
    /\ (failureCount + 1 >= failureThreshold) => CanOpen
    /\ \E error \in Errors :
           LET b == fail(Awaited(error), error)
           IN /\ Becomes(b) /\ Ran("fail", "rethrown", b)
              /\ undisturbed' = IF Invoked(b, "onOpen") THEN TRUE ELSE undisturbed
    /\ inflight' = inflight - 1
    /\ failStreak' = failStreak + 1
    /\ NotProbing
    /\ UNCHANGED <<now, config, calls, onlyFailures>>

\* trip(): index.ts:205-207
Trip ==
    /\ CanOpen
    /\ LET b == open(Self)
       IN Becomes(b) /\ Ran("trip", "returned", b)
    /\ undisturbed' = TRUE
    /\ onlyFailures' = FALSE
    /\ NotProbing
    /\ UNCHANGED <<now, config, calls, inflight, failStreak>>

\* reset(): index.ts:213-218
Reset ==
    /\ LET b == resetBreaker(Self)
       IN Becomes(b) /\ Ran("reset", "returned", b)
    /\ undisturbed' = FALSE
    /\ onlyFailures' = FALSE
    /\ failStreak' = 0
    /\ NotProbing
    /\ UNCHANGED <<now, config, calls, inflight>>

\* destroy(): index.ts:264-269
Destroy ==
    /\ LET b == destroyBreaker(Self)
       IN Becomes(b) /\ Ran("destroy", "returned", b)
    /\ undisturbed' = FALSE
    /\ onlyFailures' = FALSE
    /\ NotProbing
    /\ UNCHANGED <<now, config, calls, inflight, failStreak>>

\* the timer facility runs the callback of pending timer t: index.ts:247
TimerFires(t) ==
    /\ t \in timers
    /\ t.due <= now
    /\ LET b == transitionToHalfOpen([Self EXCEPT !.timers = @ \ {t}])
       IN /\ Becomes(b) /\ Ran("timer", "returned", b)
          /\ IF EntersHalfOpen(b)
             THEN (IF inflight = 0 THEN StartsProbing ELSE NotProbing)
             ELSE UNCHANGED <<probing, trials>>
    /\ onlyFailures' = FALSE
    /\ UNCHANGED <<now, config, calls, inflight, undisturbed, failStreak>>

\* Date.now() advances
Tick ==
    /\ now < MaxTime
    /\ now' = now + 1
    /\ Ran("tick", "returned", Self)
    /\ UNCHANGED <<state, failureCount, successCount, nextAttemptTime, timeoutId,
                   timers, calls, inflight, config, history>>

Cooldown == \E t \in timers : TimerFires(t)

Next ==
    \/ FireRejected
    \/ FireAdmitted
    \/ RequestResolves
    \/ RequestRejects
    \/ Trip
    \/ Reset
    \/ Destroy
    \/ Cooldown
    \/ Tick

Spec == Init /\ [][Next]_vars

\* The environment does not stop while it has something to do: as long as the
\* clock can advance or a due timer callback can run, one of the two happens.
LiveSpec == Spec /\ WF_vars(Tick \/ Cooldown)

\* ------------------------------------------------- observers that throw
\* The handlers when an observer they invoke throws.  T is the set of observers
\* that throw in this run of the handler; each action is the run in which one of
\* them was invoked, so that its exception left the method that invoked it.
ThrowingSets == (SUBSET Observers) \ {{}}

\* catch (error) { return this.fail(error) }: index.ts:151-153
caught(b) == fail([b EXCEPT !.thrown = None], b.thrown)

\* fire() whose lazy transition invokes a throwing onHalfOpen: the exception
\* leaves fire() at index.ts:141, before the request is invoked
FireThrows ==
    /\ ~failsFast
    /\ \E T \in ThrowingSets :
           LET b == admit([Self EXCEPT !.throwing = T])
           IN b.thrown \in Observers /\ Becomes(b) /\ Ran("fire", "threw", b)
    /\ undisturbed' = FALSE
    /\ onlyFailures' = FALSE
    /\ NotProbing
    /\ UNCHANGED <<now, config, calls, inflight, failStreak>>

\* a pending request resolves and success() leaves by an exception of onClose:
\* the catch clause of fire() takes it for a failure of the request
ResolvesThrows ==
    /\ inflight > 0
    /\ \E response \in Responses, T \in ThrowingSets :
           LET c == success([Awaited(response) EXCEPT !.throwing = T], response)
               b == caught(c)
           IN c.thrown \in Observers /\ (b.state = "OPEN" => CanOpen)
              /\ Becomes(b) /\ Ran("success", "rethrown", b)
              /\ undisturbed' = IF Invoked(b, "onOpen") THEN TRUE ELSE undisturbed
    /\ inflight' = inflight - 1
    /\ onlyFailures' = FALSE
    /\ failStreak' = 0
    /\ NotProbing
    /\ UNCHANGED <<now, config, calls>>

\* a pending request rejects and fail() leaves by an exception of onOpen
RejectsThrows ==
    /\ inflight > 0
    /\ CanOpen
    /\ \E error \in Errors, T \in ThrowingSets :
           LET b == fail([Awaited(error) EXCEPT !.throwing = T], error)
           IN b.thrown \in Observers /\ Becomes(b) /\ Ran("fail", "rethrown", b)
    /\ undisturbed' = TRUE
    /\ inflight' = inflight - 1
    /\ failStreak' = failStreak + 1
    /\ NotProbing
    /\ UNCHANGED <<now, config, calls, onlyFailures>>

\* trip() whose onOpen throws
TripThrows ==
    /\ CanOpen
    /\ \E T \in ThrowingSets :
           LET b == open([Self EXCEPT !.throwing = T])
           IN b.thrown \in Observers /\ Becomes(b) /\ Ran("trip", "threw", b)
    /\ undisturbed' = TRUE
    /\ onlyFailures' = FALSE
    /\ NotProbing
    /\ UNCHANGED <<now, config, calls, inflight, failStreak>>

\* reset() whose onClose throws
ResetThrows ==
    /\ \E T \in ThrowingSets :
           LET b == resetBreaker([Self EXCEPT !.throwing = T])
           IN b.thrown \in Observers /\ Becomes(b) /\ Ran("reset", "threw", b)
    /\ undisturbed' = FALSE
    /\ onlyFailures' = FALSE
    /\ failStreak' = 0
    /\ NotProbing
    /\ UNCHANGED <<now, config, calls, inflight>>

\* the callback of pending timer t runs and its onHalfOpen throws
TimerThrows(t) ==
    /\ t \in timers
    /\ t.due <= now
    /\ \E T \in ThrowingSets :
           LET b == transitionToHalfOpen([Self EXCEPT !.timers = @ \ {t}, !.throwing = T])
           IN /\ b.thrown \in Observers /\ Becomes(b) /\ Ran("timer", "threw", b)
              /\ IF inflight = 0 THEN StartsProbing ELSE NotProbing
    /\ onlyFailures' = FALSE
    /\ UNCHANGED <<now, config, calls, inflight, undisturbed, failStreak>>

CooldownThrows == \E t \in timers : TimerThrows(t)

NextThrowing ==
    \/ Next
    \/ FireThrows
    \/ ResolvesThrows
    \/ RejectsThrows
    \/ TripThrows
    \/ ResetThrows
    \/ CooldownThrows

\* The breaker with observers that may throw.
ThrowSpec == Init /\ [][NextThrowing]_vars

\* The breaker in the executions in which destroy() is never called.
NextUndestroyed ==
    \/ FireRejected
    \/ FireAdmitted
    \/ RequestResolves
    \/ RequestRejects
    \/ Trip
    \/ Reset
    \/ Cooldown
    \/ Tick

UndestroyedSpec == Init /\ [][NextUndestroyed]_vars

\* ------------------------------------------------------------- inspection
\* A caller reads the breaker through the five inspectors, one after the other
\* in one synchronous run; what each returned is recorded under its name.
Inspect ==
    /\ LET b1 == getState(Self)
           b2 == getStats(b1)
           b3 == isOpen(b2)
           b4 == isClosed(b3)
           b5 == isHalfOpen(b4)
           reports == [getState |-> b1.result, getStats |-> b2.result,
                       isOpen |-> b3.result, isClosed |-> b4.result,
                       isHalfOpen |-> b5.result]
       IN Becomes(b5) /\ Ran("inspect", "returned", [b5 EXCEPT !.result = reports])
    /\ UNCHANGED <<now, config, calls, inflight, history>>

NextInspected ==
    \/ Next
    \/ Inspect

\* The breaker with callers that also inspect it.
InspectSpec == Init /\ [][NextInspected]_vars

\* ------------------------------------------------------------ construction
\* the defaults of index.ts:122-124
DefaultFailureThreshold == 3
DefaultSuccessThreshold == 2
DefaultTimeout == 10000

OptionNames == {"failureThreshold", "successThreshold", "timeout"}

\* The options argument: a value for each option that is supplied, among them
\* zero and a negative number; an option outside the domain is undefined.
OptionValues == -1..MaxThreshold
AllOptions == UNION {[names -> OptionValues] : names \in SUBSET OptionNames}

\* options.name !== undefined
supplied(options, name) == name \in DOMAIN options

\* the validation as it would be with < for <=
configError_AllowsZero(options) ==
    IF supplied(options, "failureThreshold") /\ options.failureThreshold < 0
    THEN "failureThreshold must be a positive number"
    ELSE IF supplied(options, "successThreshold") /\ options.successThreshold < 0
    THEN "successThreshold must be a positive number"
    ELSE IF supplied(options, "timeout") /\ options.timeout < 0
    THEN "timeout must be a positive number"
    ELSE None

\* the validation of the constructor, index.ts:112-120: the error it throws
configError(options) ==
    IF supplied(options, "failureThreshold") /\ options.failureThreshold <= 0
    THEN "failureThreshold must be a positive number"
    ELSE IF supplied(options, "successThreshold") /\ options.successThreshold <= 0
    THEN "successThreshold must be a positive number"
    ELSE IF supplied(options, "timeout") /\ options.timeout <= 0
    THEN "timeout must be a positive number"
    ELSE None

\* options.name ?? default
orDefault(options, name, default) ==
    IF supplied(options, name) THEN options[name] ELSE default

\* No breaker exists yet: state is None.
NoBreaker ==
    /\ state = None
    /\ failureCount = 0
    /\ successCount = 0
    /\ nextAttemptTime = 0
    /\ failureThreshold = 0
    /\ successThreshold = 0
    /\ timeout = 0
    /\ timeoutId = NoTimer
    /\ now = 1
    /\ timers = {}
    /\ calls = 0
    /\ inflight = 0
    /\ last = [op |-> "none", from |-> None, outcome |-> None, notified |-> <<>>,
               settled |-> None, result |-> None, options |-> <<>>]
    /\ undisturbed = FALSE
    /\ onlyFailures = TRUE
    /\ failStreak = 0
    /\ probing = FALSE
    /\ trials = 0

\* new CircuitBreaker(request, options): index.ts:86-99, 107-128
New(options) ==
    /\ state = None
    /\ last.op = "none"
    /\ IF configError(options) # None
       THEN /\ last' = [last EXCEPT !.op = "new", !.outcome = "threw",
                                    !.result = configError(options),
                                    !.options = options]
            /\ UNCHANGED <<state, failureCount, successCount, nextAttemptTime,
                           timeoutId, timers, config>>
       ELSE /\ state' = "CLOSED"
            /\ failureCount' = 0
            /\ successCount' = 0
            /\ nextAttemptTime' = 0
            /\ timeoutId' = NoTimer
            /\ timers' = {}
            /\ failureThreshold' =
                   orDefault(options, "failureThreshold", DefaultFailureThreshold)
            /\ successThreshold' =
                   orDefault(options, "successThreshold", DefaultSuccessThreshold)
            /\ timeout' = orDefault(options, "timeout", DefaultTimeout)
            /\ last' = [last EXCEPT !.op = "new", !.outcome = "returned",
                                    !.options = options]
    /\ UNCHANGED <<now, calls, inflight, history>>

Construct == \E options \in AllOptions : New(options)

CtorSpec == NoBreaker /\ [][Construct]_vars

\* A burst of calls on a CLOSED breaker with failureCount 0: after any use of
\* trip(), reset(), destroy() and rejected calls (while calls = 0), k calls are
\* admitted before any of them settles (calls = inflight), and then each of them
\* fails, in any order and with the clock and the timers running.
NextBurst ==
    \/ calls = 0 /\ Trip
    \/ calls = 0 /\ Reset
    \/ calls = 0 /\ Destroy
    \/ calls = 0 /\ FireRejected
    \/ calls = inflight /\ state = "CLOSED" /\ failureCount = 0 /\ FireAdmitted
    \/ RequestRejects
    \/ Cooldown
    \/ Tick

BurstSpec == Init /\ [][NextBurst]_vars

TypeOK ==
    /\ state \in CircuitState
    /\ failureCount \in 0..MaxCalls
    /\ successCount \in 0..MaxThreshold
    /\ nextAttemptTime \in 0..MaxTime
    /\ timeoutId \in Nat
    /\ \A t \in timers : t.id \in Nat \ {NoTimer} /\ t.due \in 1..MaxTime
    /\ now \in 1..MaxTime
    /\ calls \in 0..MaxCalls
    /\ inflight \in 0..MaxInFlight
    /\ last.from \in CircuitState
    /\ undisturbed \in BOOLEAN
    /\ onlyFailures \in BOOLEAN
    /\ failStreak \in 0..MaxCalls
    /\ probing \in BOOLEAN
    /\ trials \in 0..MaxThreshold

\* timeoutId never names a timer that was cleared or has fired
HandleIsPending == timeoutId # NoTimer => \E t \in timers : t.id = timeoutId

\* ------------------------------------------------------------------ claims
\* C1: a fire() made while the state is OPEN and the clock has not passed
\* nextAttemptTime rejects with the breaker-open error, does not invoke the
\* request, and leaves the state OPEN.
C1_FailFast ==
    [][(last'.op = "fire" /\ state = "OPEN" /\ now <= nextAttemptTime)
         => /\ last'.outcome = "rejected"
            /\ calls' = calls
            /\ inflight' = inflight
            /\ state' = "OPEN"]_vars

\* a rejected fire() at the very deadline, on a breaker tripped by failures
C1_Witness ==
    /\ last.op = "fire" /\ last.outcome = "rejected"
    /\ state = "OPEN" /\ now = nextAttemptTime
    /\ failureCount >= failureThreshold

\* C2: on a fresh breaker whose calls are made one at a time and all fail, the
\* state is CLOSED after every failure below failureThreshold and OPEN right
\* after the failureThreshold-th, for every failureThreshold.
C2_TripAtThreshold ==
    (onlyFailures /\ inflight = 0)
      => /\ failureCount = calls
         /\ calls < failureThreshold => state = "CLOSED"
         /\ calls = failureThreshold => state = "OPEN"

C2_Witness ==
    /\ onlyFailures /\ inflight = 0 /\ last.op = "fail"
    /\ failureThreshold > 1 /\ calls = failureThreshold
    /\ state = "OPEN"

\* C3: a request that resolves while CLOSED leaves failureCount at 0, and the
\* breaker leaves CLOSED for OPEN by a failure only when the last
\* failureThreshold requests in a row failed.
C3_ConsecutiveFailuresOnly ==
    /\ (last.op = "success" /\ last.from = "CLOSED") => failureCount = 0
    /\ (last.op = "fail" /\ last.from = "CLOSED" /\ state = "OPEN")
         => failStreak >= failureThreshold

\* C4: a request that fails while HALF_OPEN leaves the breaker OPEN with
\* nextAttemptTime = time of the failure + timeout.
C4_ProbeFailureTrips ==
    (last.op = "fail" /\ last.from = "HALF_OPEN")
      => state = "OPEN" /\ nextAttemptTime = now + timeout

\* C5: from the entry into HALF_OPEN, after k < successThreshold calls in a row
\* that resolve the state is still HALF_OPEN, and after exactly
\* successThreshold of them it is CLOSED with both counters 0.
C5_Recovery ==
    /\ (probing /\ trials < successThreshold)
         => state = "HALF_OPEN" /\ successCount = trials
    /\ (probing /\ trials >= successThreshold)
         => /\ trials = successThreshold
            /\ state = "CLOSED" /\ failureCount = 0 /\ successCount = 0

C5_Witness ==
    /\ successThreshold > 1 /\ probing /\ trials = successThreshold
    /\ last.op = "success" /\ last.from = "HALF_OPEN"
    /\ state = "CLOSED"

\* C6: a fire() made while the state is OPEN and the clock has passed
\* nextAttemptTime moves the breaker to HALF_OPEN with successCount 0 and
\* invokes the request for that same call.
C6_LazyTransition ==
    [][(last'.op = "fire" /\ state = "OPEN" /\ now > nextAttemptTime)
         => /\ state' = "HALF_OPEN"
            /\ successCount' = 0
            /\ last'.outcome = "admitted"
            /\ last'.notified = <<"onHalfOpen">>
            /\ calls' = calls + 1
            /\ inflight' = inflight + 1]_vars

C6_Witness ==
    /\ last.op = "fire" /\ last.from = "OPEN" /\ last.outcome = "admitted"
    /\ now > nextAttemptTime
    /\ state = "HALF_OPEN" /\ inflight > 0

\* C7: after an entry into OPEN that is followed by no fire, trip, reset or
\* destroy, the state eventually becomes HALF_OPEN (by a cooldown callback).
C7_SelfHealing ==
    (state = "OPEN" /\ undisturbed) ~> (state = "HALF_OPEN" \/ ~undisturbed)

C7_Witness ==
    /\ undisturbed /\ last.op = "timer" /\ last.from = "OPEN"
    /\ state = "HALF_OPEN" /\ now >= nextAttemptTime

\* C8: a cooldown callback moves the breaker from OPEN to HALF_OPEN only when
\* timeout has elapsed since the latest entry into OPEN: a callback scheduled
\* by an earlier entry never ends a later trip.
C8_NoStaleCallback ==
    (last.op = "timer" /\ last.from = "OPEN" /\ state = "HALF_OPEN")
      => now >= nextAttemptTime

\* C9: trip() leaves the state OPEN from every starting state, with
\* nextAttemptTime = now + timeout, a callback scheduled for that time and
\* onOpen invoked.
C9_TripForcesOpen ==
    last.op = "trip"
      => /\ state = "OPEN"
         /\ nextAttemptTime = now + timeout
         /\ \E t \in timers : t.id = timeoutId /\ t.due = now + timeout
         /\ last.notified = <<"onOpen">>

\* trip() on a breaker that was already OPEN, at a later time than its entry
C9_Witness ==
    /\ last.op = "trip" /\ last.from = "OPEN"
    /\ nextAttemptTime > 1 + timeout
    /\ state = "OPEN"

\* C10: reset() leaves the state CLOSED with both counters 0 from every
\* starting state, and a fire() that follows it invokes the request even when
\* nextAttemptTime lies in the future.
C10_ResetForcesClosed ==
    [][/\ last'.op = "reset"
            => state' = "CLOSED" /\ failureCount' = 0 /\ successCount' = 0
       /\ (last.op = "reset" /\ last'.op = "fire")
            => last'.outcome = "admitted" /\ calls' = calls + 1]_vars

\* reset() has run on an OPEN breaker whose deadline is still ahead, and a
\* fire() can follow it
C10_Witness ==
    /\ last.op = "reset" /\ last.from = "OPEN"
    /\ now < nextAttemptTime
    /\ state = "CLOSED"
    /\ ENABLED FireAdmitted

\* C11: after reset() on an OPEN breaker with a cooldown callback scheduled, no
\* cooldown callback of the breaker is pending.
C11_ResetClearsCallback ==
    (last.op = "reset" /\ last.from = "OPEN") => (timers = {} /\ timeoutId = NoTimer)

\* C12: after destroy() no cooldown callback scheduled before it is left to
\* fire, and destroy() changes none of state, failureCount, successCount and
\* nextAttemptTime.
C12_DestroyCancelsAll ==
    [][last'.op = "destroy"
         => /\ timers' = {}
            /\ UNCHANGED <<state, failureCount, successCount, nextAttemptTime>>]_vars

\* C18: nextAttemptTime is non-zero if and only if the state is OPEN.
C18_DeadlineIffOpen == (nextAttemptTime # 0) <=> (state = "OPEN")

\* C19: while the state is OPEN or HALF_OPEN, failureCount is 0.
C19_FailureCountOnlyWhileClosed ==
    state \in {"OPEN", "HALF_OPEN"} => failureCount = 0

\* C20: while the state is CLOSED or OPEN, successCount is 0, also right after a
\* failure in HALF_OPEN has opened the breaker again.
C20_SuccessCountOnlyWhileHalfOpen ==
    state \in {"CLOSED", "OPEN"} => successCount = 0

\* C17: as long as destroy() has not been called, exactly one cooldown callback
\* is pending whenever the state is OPEN.
C17_OneCallbackWhileOpen == state = "OPEN" => Cardinality(timers) = 1

\* C13: when the awaited request has settled, fire() resolves with the value
\* the request resolved with, or rejects with the error the request rejected
\* with, whatever transition or observer call the outcome causes.
C13_OutcomePassThrough ==
    /\ last.op = "success" => (last.outcome = "resolved" /\ last.result = last.settled)
    /\ last.op = "fail" => (last.outcome = "rethrown" /\ last.result = last.settled)

\* C14: when k calls were in flight at once on a CLOSED breaker with
\* failureCount 0 and all of them fail, every failure is counted: while they
\* settle failureCount is the number that has failed, and when the last has
\* failed failureCount = k and the state is CLOSED if k < failureThreshold and
\* OPEN if k >= failureThreshold.
C14_NoLostIncrement ==
    /\ calls > 0 => failureCount = calls - inflight
    /\ (calls > 0 /\ inflight = 0 /\ last.op = "fail")
          => /\ failureCount = calls
             /\ calls < failureThreshold => state = "CLOSED"
             /\ calls >= failureThreshold => state = "OPEN"

\* two calls in flight at once have both failed, the second reaching the
\* threshold
C14_Witness ==
    /\ calls = 2 /\ inflight = 0 /\ last.op = "fail"
    /\ failureThreshold = 2 /\ failureCount = 2 /\ state = "OPEN"

\* C15: new CircuitBreaker(request, options) throws a configuration error and
\* creates no breaker when a supplied failureThreshold, successThreshold or
\* timeout is zero or negative; otherwise (every supplied value positive, the
\* others omitted) it returns a breaker that is CLOSED with failureCount 0,
\* successCount 0 and no cooldown callback pending.
C15_Construction ==
    last.op = "new" =>
        IF \E name \in DOMAIN last.options : last.options[name] <= 0
        THEN /\ last.outcome = "threw"
             /\ last.result # None
             /\ state = None
        ELSE /\ last.outcome = "returned"
             /\ state = "CLOSED"
             /\ failureCount = 0
             /\ successCount = 0
             /\ timers = {}
             /\ timeoutId = NoTimer

\* a construction rejected for its timeout of 0 alone, failureThreshold being
\* positive and successThreshold omitted
C15_Witness ==
    /\ last.op = "new" /\ last.outcome = "threw" /\ state = None
    /\ DOMAIN last.options = {"failureThreshold", "timeout"}
    /\ last.options.failureThreshold = 1 /\ last.options.timeout = 0

\* C16: getState, getStats, isOpen, isClosed and isHalfOpen leave state,
\* failureCount, successCount, nextAttemptTime and the pending callback as they
\* are and invoke no observer; they report the stored state, so that an OPEN
\* breaker whose deadline has passed, with neither a fire() nor the callback run
\* since, is still reported OPEN.
C16_InspectorsOnlyRead ==
    [][last'.op = "inspect"
         => /\ UNCHANGED <<state, failureCount, successCount, nextAttemptTime,
                           timeoutId, timers>>
            /\ last'.notified = <<>>
            /\ last'.result.getState = state
            /\ last'.result.getStats =
                   [state |-> state, failureCount |-> failureCount,
                    successCount |-> successCount,
                    nextAttemptTime |-> nextAttemptTime]
            /\ last'.result.isOpen = (state = "OPEN")
            /\ last'.result.isClosed = (state = "CLOSED")
            /\ last'.result.isHalfOpen = (state = "HALF_OPEN")
            /\ (state = "OPEN" /\ now > nextAttemptTime)
                  => (last'.result.getState = "OPEN" /\ last'.result.isOpen)]_vars

\* the breaker was inspected while OPEN with the deadline passed, the callback
\* still pending and no fire(), trip(), reset() or destroy() since it opened
C16_Witness ==
    /\ last.op = "inspect" /\ last.from = "OPEN" /\ now > nextAttemptTime
    /\ undisturbed /\ timers # {} /\ timeoutId # NoTimer
    /\ state = "OPEN" /\ last.result.getState = "OPEN"

C22_ThrowingOnOpenStillSchedules ==
    (/\ last.outcome \in {"threw", "rethrown"}
     /\ last.result = "onOpen"
     /\ state = "OPEN")
        => \E t \in timers : t.id = timeoutId /\ t.due = nextAttemptTime

\* C23: the breaker cannot get stuck.  In every reachable state, destroyed or
\* not and with or without calls in flight, reset(), trip() and fire() can run
\* (within the bounds of the model) and the clock of an OPEN breaker can
\* advance; reset() ends in CLOSED, trip() ends in OPEN, the clock leaves the
\* breaker alone, and a fire() on an OPEN breaker whose deadline has passed
\* ends in HALF_OPEN whether or not a cooldown callback is pending.  So each
\* of CLOSED, OPEN and HALF_OPEN can be reached from every state.
C23_NeverStuck ==
    /\ [](/\ ENABLED Reset
          /\ CanOpen => ENABLED Trip
          /\ (calls < MaxCalls /\ inflight < MaxInFlight)
                => ENABLED (FireRejected \/ FireAdmitted)
          /\ (state = "OPEN" /\ now < MaxTime) => ENABLED Tick)
    /\ [][/\ last'.op = "reset" => state' = "CLOSED"
          /\ last'.op = "trip" => state' = "OPEN"
          /\ last'.op = "tick"
                => now' = now + 1 /\ UNCHANGED <<state, nextAttemptTime>>
          /\ (last'.op = "fire" /\ state = "OPEN" /\ now > nextAttemptTime)
                => state' = "HALF_OPEN"]_vars

\* a fire() moved an OPEN breaker without a cooldown callback to HALF_OPEN
\* while an earlier call was in flight
C23_Witness ==
    /\ last.op = "fire" /\ last.from = "OPEN" /\ state = "HALF_OPEN"
    /\ timers = {} /\ timeoutId = NoTimer
    /\ inflight = 2

\* C24: each observer is invoked exactly on entry to its state: a handler
\* that changed the state value invoked the observer of the new state once
\* and no other, and a handler that left the state value as it was invoked
\* no observer.
C24_ObserversOnlyOnEntry ==
    /\ last.from # state
          => last.notified = << CASE state = "OPEN" -> "onOpen"
                                  [] state = "HALF_OPEN" -> "onHalfOpen"
                                  [] OTHER -> "onClose" >>
    /\ last.from = state => last.notified = <<>>

\* C25: in every reachable state a CLOSED breaker has failureCount below
\* failureThreshold, and successCount is at least 0 and below
\* successThreshold: a counter that reaches its threshold takes the
\* transition in the same step.
C25_CountersBelowThreshold ==
    /\ state = "CLOSED" => failureCount < failureThreshold
    /\ 0 <= successCount /\ successCount < successThreshold

\* a failure was counted by a CLOSED breaker that stays CLOSED, one short of
\* the threshold
C25_Witness ==
    /\ last.op = "fail" /\ last.from = "CLOSED" /\ state = "CLOSED"
    /\ failureCount >= 1 /\ failureCount = failureThreshold - 1

\* C26: a late failure does not re-arm an open breaker: when a pending
\* request rejects while the state is OPEN, the state, nextAttemptTime and
\* the pending cooldown callback stay as they were and onOpen is not invoked.
C26_LateFailureDoesNotRearm ==
    [][(last'.op = "fail" /\ state = "OPEN")
         => /\ state' = "OPEN"
            /\ UNCHANGED <<nextAttemptTime, timeoutId, timers>>
            /\ last'.notified = <<>>]_vars

\* C27: only trial calls decide recovery: the success of a call admitted
\* before the current HALF_OPEN period does not count.  When the cooldown
\* callback has just moved the breaker to HALF_OPEN, no call has been
\* admitted in this period yet, so a request that resolves next leaves
\* successCount and the state as they are.
C27_OnlyTrialsCount ==
    [][(/\ last.op = "timer" /\ last.from = "OPEN" /\ state = "HALF_OPEN"
        /\ last'.op = "success")
         => successCount' = successCount /\ state' = "HALF_OPEN"]_vars
====
